---- MODULE Spec2Model ----
(***************************************************************************)
(* State-machine model of AREngineSimple (src/src/ar/AREngineSimple.js):   *)
(* the optical-flow tracking engine, its per-frame pipeline                *)
(* (processFrame -> detectFeatures -> trackPoints -> estimatePlane ->      *)
(* estimatePose), and the lifecycle operations around it.                  *)
(*                                                                         *)
(* Numbers.  planeConfidence is kept in hundredths (0.15 is 15, 0.5 is 50, *)
(* 1 is 100) and all sums, means and variances are exact rationals; the    *)
(* rounding of IEEE doubles is not modelled.  Coordinates are integers     *)
(* plus the three non-finite float values NaN, +Infinity and -Infinity.    *)
(***************************************************************************)
EXTENDS Integers, Sequences, FiniteSets, TLC

(***************************************************************************)
(* Bounds of the model (not program constants).                            *)
(***************************************************************************)
MaxFrames == 6      \* frames per run of Spec
LongFrames == 16    \* frames per run of SpecLong
FlowFrames == 3     \* frames per run of SpecFlow
MaxCoord == 20      \* width of the band of columns tracked points stay in
LifeFrames == 6     \* frames per run of SpecLife
MaxListeners == 2   \* successful init calls per run
RefreshFrames == 31  \* frames per run of SpecRefresh (two refresh intervals)
RunCap == 4         \* length at which a run of frames stops being counted

(***************************************************************************)
(* Program constants, as literals of the source.                           *)
(***************************************************************************)
DefaultMinFeatures == 15
DefaultRefreshInterval == 15
MinCorrespondences == 8
CoherenceThreshold == 100
OutlierBound == 50
ConfStepUp == 15
ConfStepDown == 10
ConfOne == 100
AcceptThreshold == 50
PoseDepth == 3
DrawThreshold == 30

VARIABLES
    cvLoaded,         \* the global cv is defined (OpenCV.js has loaded)
    initialized,      \* this.initialized
    frame,            \* this.frame: Null or the dimensions of the RGBA buffer
    grayFrame,        \* this.grayFrame: dimensions of the grayscale Mat
    prevGrayFrame,    \* this.prevGrayFrame: dimensions of the previous grayscale Mat
    prevPoints,       \* this.prevPoints: Null or a Mat holding the point rows
    goodFeatures,     \* this.goodFeatures
    trackedPoints,    \* this.trackedPoints: the correspondences
    isTracking,       \* this.isTracking
    currentPose,      \* this.currentPose
    groundPlane,      \* this.groundPlane
    planeConfidence,  \* this.planeConfidence, in hundredths
    imuData,          \* this.imuData
    settings,         \* this.settings
    frameCount,       \* this.frameCount
    nextPoints,       \* this.nextPoints, this.status, this.err: one row count
    released,         \* the fields whose Mat has been delete()d
    imuListeners,     \* deviceorientation listeners bound to window
    hist,             \* history of the frames since construction or reset
    result,           \* the record the last processFrame call returned
    step              \* what the last operation did (history of one call)

vars == << cvLoaded, initialized, frame, grayFrame, prevGrayFrame, prevPoints,
           goodFeatures, trackedPoints, isTracking, currentPose, groundPlane,
           planeConfidence, imuData, settings, frameCount, nextPoints,
           released, imuListeners, hist, result, step >>

(***************************************************************************)
(* Values.                                                                 *)
(***************************************************************************)
Null == [null |-> TRUE]

Min(a, b) == IF a < b THEN a ELSE b
Max(a, b) == IF a > b THEN a ELSE b

\* The non-finite values a Float32Array element or a double can hold.
NaN == 1000000 + 1
PosInf == 1000000 + 2
NegInf == 1000000 + 3

IsNaN(v) == v = NaN
IsFinite(v) == v \notin {NaN, PosInf, NegInf}

FNeg(a) ==
    CASE a = NaN -> NaN
      [] a = PosInf -> NegInf
      [] a = NegInf -> PosInf
      [] OTHER -> 0 - a

FAdd(a, b) ==
    CASE a = NaN \/ b = NaN -> NaN
      [] a = PosInf -> IF b = NegInf THEN NaN ELSE PosInf
      [] a = NegInf -> IF b = PosInf THEN NaN ELSE NegInf
      [] b = PosInf -> PosInf
      [] b = NegInf -> NegInf
      [] OTHER -> a + b

FSub(a, b) == FAdd(a, FNeg(b))

FSq(a) ==
    CASE a = NaN -> NaN
      [] a = PosInf \/ a = NegInf -> PosInf
      [] OTHER -> a * a

\* a < b on doubles: false as soon as one side is NaN.
FLess(a, b) ==
    CASE a = NaN \/ b = NaN -> FALSE
      [] a = PosInf -> FALSE
      [] b = NegInf -> FALSE
      [] a = NegInf -> TRUE
      [] b = PosInf -> TRUE
      [] OTHER -> a < b

\* Math.sqrt(d2) < bound, for bound > 0: the square root is monotone, maps
\* NaN to NaN and +Infinity to +Infinity.
SqrtLess(d2, bound) == FLess(d2, bound * bound)

\* new cv.Mat(): an empty image, and an empty point matrix.
EmptyMat == [rows |-> 0, cols |-> 0]
EmptyPoints == [pts |-> << >>]
Rows(m) == Len(m.pts)

DefaultSettings ==
    [minFeatures |-> DefaultMinFeatures,
     featureRefreshInterval |-> DefaultRefreshInterval]

\* The history before any frame, and after a reset.
NoHistory ==
    [coherent |-> 0, floored |-> 0, failedAt |-> 0]

DefaultResult ==
    [isTracking |-> FALSE, hasFeatures |-> FALSE, featureCount |-> 0,
     planeCount |-> 0, pose |-> Null]

(***************************************************************************)
(* constructor                                                             *)
(***************************************************************************)
Init ==
    /\ cvLoaded = FALSE
    /\ initialized = FALSE
    /\ frame = Null
    /\ grayFrame = Null
    /\ prevGrayFrame = Null
    /\ prevPoints = Null
    /\ goodFeatures = << >>
    /\ trackedPoints = << >>
    /\ isTracking = FALSE
    /\ currentPose = Null
    /\ groundPlane = Null
    /\ planeConfidence = 0
    /\ imuData = [alpha |-> 0, beta |-> 0, gamma |-> 0]
    /\ settings = DefaultSettings
    /\ frameCount = 0
    /\ nextPoints = Null
    /\ released = {}
    /\ imuListeners = 0
    /\ hist = NoHistory
    /\ result = DefaultResult
    /\ step = [op |-> "new"]

(***************************************************************************)
(* Inputs.  The video element, the corner detector, the optical-flow       *)
(* primitive, the orientation sensor and the caller of updateSettings are  *)
(* the environment; what they deliver is drawn from these sets.            *)
(***************************************************************************)
VideoSizes == { <<0, 48>>, <<64, 0>>, <<64, 48>> }

\* A video whose decoded size changes between frames.
ChangingSizes == { <<64, 48>>, <<32, 24>> }

\* Where the detector puts its points: column DetX, one row apart.
\* With bad set, the detector's first two points hold a non-finite coordinate.
DetX == 10
DetectThrows == [throws |-> TRUE, n |-> 0, bad |-> FALSE]
Detected(k, b) == [throws |-> FALSE, n |-> k, bad |-> b]

DetectOutcomes == {DetectThrows} \cup {Detected(k, FALSE) : k \in {0, 6, 16}}

LongDetects == {Detected(k, FALSE) : k \in {0, 20}}

LifeDetects == {Detected(k, FALSE) : k \in {0, 6, 16}}
AllDetects ==
    {DetectThrows} \cup {Detected(k, b) : k \in {0, 6, 16}, b \in BOOLEAN}

\* One point's optical-flow output: its status flag and its displacement
\* (a non-finite displacement gives a non-finite next coordinate).
Lost == [st |-> 0, dx |-> 0, dy |-> 0]
Stay == [st |-> 1, dx |-> 0, dy |-> 0]
Right == [st |-> 1, dx |-> 10, dy |-> 0]
Left == [st |-> 1, dx |-> 0 - 10, dy |-> 0]
Far == [st |-> 1, dx |-> 0, dy |-> OutlierBound]
NaNX == [st |-> 1, dx |-> NaN, dy |-> 0]
NaNY == [st |-> 1, dx |-> 0, dy |-> NaN]
InfX == [st |-> 1, dx |-> PosInf, dy |-> 0]

FlowSamples == {Lost, Stay, Right, Left, Far, NaNX, NaNY, InfX}

\* A flow outcome: the call throws, or the points at odd rows move by
\* sample a and those at even rows by sample b.
FlowThrows == [throws |-> TRUE, a |-> Lost, b |-> Lost]
Flow(sa, sb) == [throws |-> FALSE, a |-> sa, b |-> sb]

FlowOutcomes ==
    { FlowThrows, Flow(Stay, Stay), Flow(Right, Right), Flow(Right, Left),
      Flow(Left, Right), Flow(Lost, Lost) }

LongFlows ==
    { Flow(Stay, Stay), Flow(Right, Left), Flow(Left, Right), Flow(Lost, Lost) }

LifeFlows == {Flow(Stay, Stay), Flow(Lost, Lost)}

RefreshFlows == {FlowThrows, Flow(Stay, Stay), Flow(Lost, Lost)}
AllFlows ==
    {FlowThrows} \cup {Flow(sa, sb) : sa \in FlowSamples, sb \in {Stay, Left, Lost}}

SampleAt(flow, i) == IF i % 2 = 1 THEN flow.a ELSE flow.b

SensorReadings ==
    { [alpha |-> Null, beta |-> Null, gamma |-> Null],
      [alpha |-> [deg |-> 90], beta |-> [deg |-> 45], gamma |-> [deg |-> 30]] }

\* The last update names the acceptance threshold, in hundredths; the
\* settings object has no such key of its own, Object.assign adds it.
SettingsUpdates ==
    { [minFeatures |-> 4],
      [acceptThreshold |-> 10],
      [minFeatures |-> DefaultMinFeatures,
       featureRefreshInterval |-> DefaultRefreshInterval] }

(***************************************************************************)
(* detectFeatures                                                          *)
(***************************************************************************)
DetPoint(i, bad) ==
    [x |-> IF bad /\ i = 2 THEN PosInf ELSE DetX,
     y |-> IF bad /\ i = 1 THEN NaN ELSE i]

\* The value of this.prevPoints after detectFeatures: the detector's points,
\* or an empty Mat when goodFeaturesToTrack throws.
DetectFeatures(det) ==
    IF det.throws
    THEN EmptyPoints
    ELSE [pts |-> [i \in 1..det.n |-> DetPoint(i, det.bad)]]

\* Mutant of NeedsDetect: the interval tested on the counter before its
\* increment.
NeedsDetect_BeforeIncrement(rows, fc, s) ==
    rows < s.minFeatures \/ (fc - 1) % s.featureRefreshInterval = 0

\* Mutant of NeedsDetect: the periodic refresh is left out.
NeedsDetect_NoInterval(rows, fc, s) == rows < s.minFeatures

\* processFrame's refresh condition; fc is the frame counter after its
\* increment for the current frame.
NeedsDetect(rows, fc, s) ==
    LET needsFeatures == rows < s.minFeatures
        refreshInterval == fc % s.featureRefreshInterval = 0
    IN  needsFeatures \/ refreshInterval

(***************************************************************************)
(* trackPoints                                                             *)
(***************************************************************************)
\* calcOpticalFlowPyrLK's output for point p under sample s.
FlowAt(p, s) == [st |-> s.st, x |-> FAdd(p.x, s.dx), y |-> FAdd(p.y, s.dy)]

\* Mutant of KeepPoint: the outlier bound taken inclusively.
KeepPoint_InclusiveBound(st, prevX, prevY, nextX, nextY) ==
    /\ st = 1
    /\ ~(IsNaN(prevX) \/ IsNaN(nextX))
    /\ LET dx == FSub(nextX, prevX)
           dy == FSub(nextY, prevY)
           d2 == FAdd(FSq(dx), FSq(dy))
       IN  SqrtLess(d2, OutlierBound) \/ d2 = OutlierBound * OutlierBound

\* The filter of the loop body: row i is kept.
KeepPoint(st, prevX, prevY, nextX, nextY) ==
    /\ st = 1
    /\ ~(IsNaN(prevX) \/ IsNaN(nextX))
    /\ LET dx == FSub(nextX, prevX)
           dy == FSub(nextY, prevY)
       IN  SqrtLess(FAdd(FSq(dx), FSq(dy)), OutlierBound)

\* The for loop over the status rows, from row i on: the correspondences
\* pushed, in order (acc holds those of the rows before i).
RECURSIVE TrackLoop(_, _, _, _)
TrackLoop(pts, flow, i, acc) ==
    IF i > Len(pts)
    THEN acc
    ELSE LET p == pts[i]
             n == FlowAt(p, SampleAt(flow, i))
         IN  TrackLoop(pts, flow, i + 1,
                 IF KeepPoint(n.st, p.x, p.y, n.x, n.y)
                 THEN Append(acc, [prev |-> [x |-> p.x, y |-> p.y],
                                   curr |-> [x |-> n.x, y |-> n.y]])
                 ELSE acc)

\* goodFeatures and newPrevPoints receive the curr of every pushed pair.
CurrOf(tracked) == [k \in 1..Len(tracked) |-> tracked[k].curr]

\* Mutant of TrackPoints: the catch block leaves the lists of the frame
\* before in place.
TrackPoints_StaleOnFailure(pp, gf, tp, flow) ==
    IF Rows(pp) = 0 \/ flow.throws
    THEN [good |-> gf, tracked |-> tp, prev |-> pp, failed |-> flow.throws]
    ELSE LET tracked == TrackLoop(pp.pts, flow, 1, << >>)
         IN  [good |-> CurrOf(tracked),
              tracked |-> tracked,
              prev |-> [pts |-> CurrOf(tracked)],
              failed |-> FALSE]

\* The effect of trackPoints on (goodFeatures, trackedPoints, prevPoints).
TrackPoints(pp, gf, tp, flow) ==
    IF Rows(pp) = 0
    THEN [good |-> gf, tracked |-> tp, prev |-> pp, failed |-> FALSE]
    ELSE IF flow.throws
    THEN [good |-> << >>, tracked |-> << >>, prev |-> pp, failed |-> TRUE]
    ELSE LET tracked == TrackLoop(pp.pts, flow, 1, << >>)
         IN  [good |-> CurrOf(tracked),
              tracked |-> tracked,
              prev |-> [pts |-> CurrOf(tracked)],
              failed |-> FALSE]

\* The flow outputs the model draws keep every finite column inside the image.
FlowInImage(pp, flow) ==
    \A i \in 1..Rows(pp) :
        LET nx == FlowAt(pp.pts[i], SampleAt(flow, i)).x
        IN  IsFinite(nx) => nx \in 0..MaxCoord

(***************************************************************************)
(* estimatePlane                                                           *)
(***************************************************************************)
RECURSIVE SeqSum(_)
SeqSum(q) == IF q = << >> THEN 0 ELSE Head(q) + SeqSum(Tail(q))

\* num / den, kept exact.
Ratio(num, den) == [num |-> num, den |-> den]

DispX(pt) == pt.curr.x - pt.prev.x
DispY(pt) == pt.curr.y - pt.prev.y

TotalDX(tp) == SeqSum([k \in 1..Len(tp) |-> DispX(tp[k])])
TotalDY(tp) == SeqSum([k \in 1..Len(tp) |-> DispY(tp[k])])

\* n^2 times the sum of the squared deviations from the mean displacement
\* (the mean is total / n, so n * deviation is an integer).
ScaledDeviation(tp) ==
    LET n == Len(tp)
        tdx == TotalDX(tp)
        tdy == TotalDY(tp)
    IN  SeqSum([k \in 1..n |->
                  (n * DispX(tp[k]) - tdx) * (n * DispX(tp[k]) - tdx)
                + (n * DispY(tp[k]) - tdy) * (n * DispY(tp[k]) - tdy)])

\* Mutant of IsCoherent: a variance equal to the threshold counts as coherent.
IsCoherent_AtThreshold(tp) ==
    LET n == Len(tp)
    IN  ScaledDeviation(tp) <= CoherenceThreshold * n * n * n

\* motionVariance < 100, with motionVariance = ScaledDeviation / n^3.
IsCoherent(tp) ==
    LET n == Len(tp)
    IN  ScaledDeviation(tp) < CoherenceThreshold * n * n * n

\* Mutant of TooFew: the floor on the correspondences set at half its value.
TooFew_HalfFloor(tp) == Len(tp) < MinCorrespondences \div 2

\* trackedPoints.length < 8
TooFew(tp) == Len(tp) < MinCorrespondences

\* Mutant of ConfUp: the increment without its ceiling.
ConfUp_NoCeiling(c) == c + ConfStepUp

\* Mutant of ConfUp: the increment is as small as the decrement.
ConfUp_SmallStep(c) == Min(ConfOne, c + ConfStepDown)

ConfUp(c) == Min(ConfOne, c + ConfStepUp)
ConfDown(c) == Max(0, c - ConfStepDown)

\* Mutant of PlaneFound: the acceptance threshold taken inclusively.
PlaneFound_Inclusive(c) == c >= AcceptThreshold

\* Mutant of PlaneFound: the overlay's visibility threshold is used for
\* acceptance.
PlaneFound_DrawThreshold(c) == c > DrawThreshold

\* return this.planeConfidence > 0.5
PlaneFound(c) == c > AcceptThreshold

PlaneCenter(gf) ==
    [x |-> Ratio(SeqSum([k \in 1..Len(gf) |-> gf[k].x]), Len(gf)),
     y |-> Ratio(SeqSum([k \in 1..Len(gf) |-> gf[k].y]), Len(gf))]

\* Mutant of EstimatePlane: an incoherent frame clears the stored plane.
EstimatePlane_ClearsOnIncoherent(tp, gf, conf, plane) ==
    IF TooFew(tp)
    THEN [conf |-> ConfDown(conf), plane |-> plane, found |-> FALSE,
          kind |-> "few"]
    ELSE IF IsCoherent(tp)
    THEN LET c == ConfUp(conf)
         IN  [conf |-> c,
              plane |-> [center |-> PlaneCenter(gf),
                         confidence |-> c,
                         motion |-> [dx |-> Ratio(TotalDX(tp), Len(tp)),
                                     dy |-> Ratio(TotalDY(tp), Len(tp))]],
              found |-> PlaneFound(c),
              kind |-> "coherent"]
    ELSE [conf |-> ConfDown(conf), plane |-> Null, found |-> FALSE,
          kind |-> "incoherent"]

\* Mutant of EstimatePlane: an incoherent frame still reports the plane
\* while the lowered confidence stays above the threshold.
EstimatePlane_HoldsOnIncoherent(tp, gf, conf, plane) ==
    IF TooFew(tp)
    THEN [conf |-> ConfDown(conf), plane |-> plane, found |-> FALSE,
          kind |-> "few"]
    ELSE IF IsCoherent(tp)
    THEN LET c == ConfUp(conf)
         IN  [conf |-> c,
              plane |-> [center |-> PlaneCenter(gf),
                         confidence |-> c,
                         motion |-> [dx |-> Ratio(TotalDX(tp), Len(tp)),
                                     dy |-> Ratio(TotalDY(tp), Len(tp))]],
              found |-> PlaneFound(c),
              kind |-> "coherent"]
    ELSE [conf |-> ConfDown(conf), plane |-> plane,
          found |-> plane # Null /\ PlaneFound(ConfDown(conf)),
          kind |-> "incoherent"]

\* The effect of estimatePlane on (planeConfidence, groundPlane), its return
\* value and the branch it took.
EstimatePlane(tp, gf, conf, plane) ==
    IF TooFew(tp)
    THEN [conf |-> ConfDown(conf), plane |-> plane, found |-> FALSE,
          kind |-> "few"]
    ELSE IF IsCoherent(tp)
    THEN LET c == ConfUp(conf)
         IN  [conf |-> c,
              plane |-> [center |-> PlaneCenter(gf),
                         confidence |-> c,
                         motion |-> [dx |-> Ratio(TotalDX(tp), Len(tp)),
                                     dy |-> Ratio(TotalDY(tp), Len(tp))]],
              found |-> PlaneFound(c),
              kind |-> "coherent"]
    ELSE [conf |-> ConfDown(conf), plane |-> plane, found |-> FALSE,
          kind |-> "incoherent"]

(***************************************************************************)
(* estimatePose                                                            *)
(***************************************************************************)
\* degrees to radians, in microradians (pi as 3.141593).
DegToRad(d) == (d * 3141593) \div 180

\* Mutant of EstimatePose: returns without assigning the pose.
EstimatePose_NoAssign(plane, imu, pose) == pose

\* Mutant of EstimatePose: the displacement is used without its 0.001 scale.
EstimatePose_Unscaled(plane, imu, pose) ==
    IF plane = Null
    THEN pose
    ELSE [position |-> [x |-> Ratio(0 - plane.motion.dx.num,
                                    plane.motion.dx.den),
                        y |-> Ratio(plane.motion.dy.num,
                                    plane.motion.dy.den),
                        z |-> PoseDepth],
          rotation |-> [x |-> DegToRad(imu.beta),
                        y |-> DegToRad(imu.gamma),
                        z |-> DegToRad(imu.alpha)],
          planeCenter |-> plane.center,
          confidence |-> plane.confidence]

\* The value of this.currentPose after estimatePose.  Positions are exact:
\* dx * 0.001 is the ratio dx.num / (dx.den * 1000).
EstimatePose(plane, imu, pose) ==
    IF plane = Null
    THEN pose
    ELSE [position |-> [x |-> Ratio(0 - plane.motion.dx.num,
                                    plane.motion.dx.den * 1000),
                        y |-> Ratio(plane.motion.dy.num,
                                    plane.motion.dy.den * 1000),
                        z |-> PoseDepth],
          rotation |-> [x |-> DegToRad(imu.beta),
                        y |-> DegToRad(imu.gamma),
                        z |-> DegToRad(imu.alpha)],
          planeCenter |-> plane.center,
          confidence |-> plane.confidence]

(***************************************************************************)
(* init, setupIMU / bindIMU                                                *)
(***************************************************************************)
\* The page's OpenCV.js script finishes loading: cv becomes defined, and
\* stays defined.
LoadOpenCV ==
    /\ ~cvLoaded
    /\ cvLoaded' = TRUE
    /\ step' = [op |-> "loadOpenCV"]
    /\ UNCHANGED << initialized, frame, grayFrame, prevGrayFrame, prevPoints,
                    goodFeatures, trackedPoints, isTracking, currentPose,
                    groundPlane, planeConfidence, imuData, settings, frameCount,
                    nextPoints, released, imuListeners, hist,
                    result >>

\* The Mat-valued fields; "nextPoints" stands for nextPoints, status and err,
\* which are allocated, filled and deleted together.
InitFields == {"grayFrame", "prevGrayFrame", "prevPoints", "nextPoints"}

\* The number of Mat objects behind a field.
MatsOf(f) == IF f = "nextPoints" THEN 3 ELSE 1

\* The Mats an assignment to the fields fs drops without delete(): those
\* that hold a Mat, not yet deleted.  held is the set of non-null fields.
RECURSIVE Dropped(_, _)
Dropped(fs, held) ==
    IF fs = {}
    THEN 0
    ELSE LET f == CHOOSE x \in fs : TRUE
         IN  (IF f \in held /\ f \notin released THEN MatsOf(f) ELSE 0)
                 + Dropped(fs \ {f}, held)

\* The non-null Mat fields.
Held ==
    {f \in InitFields \cup {"frame"} :
        CASE f = "frame" -> frame # Null
          [] f = "grayFrame" -> grayFrame # Null
          [] f = "prevGrayFrame" -> prevGrayFrame # Null
          [] f = "prevPoints" -> prevPoints # Null
          [] f = "nextPoints" -> nextPoints # Null}

\* Mutant of EngineInit: the first Mat is assigned before the availability
\* check is acted on.
EngineInit_AllocatesFirst ==
    /\ imuListeners < MaxListeners
    /\ grayFrame' = EmptyMat
    /\ IF cvLoaded
       THEN /\ prevGrayFrame' = EmptyMat
            /\ prevPoints' = EmptyPoints
            /\ nextPoints' = EmptyMat
            /\ released' = released \ InitFields
            /\ imuListeners' = imuListeners + 1
            /\ initialized' = TRUE
       ELSE UNCHANGED << prevGrayFrame, prevPoints, nextPoints,
                         released, imuListeners, initialized >>
    /\ step' = [op |-> "init", ret |-> IF cvLoaded THEN "done" ELSE "thrown",
                leaked |-> IF cvLoaded THEN Dropped(InitFields, Held) ELSE 0,
                again |-> initialized]
    /\ UNCHANGED << cvLoaded, frame, goodFeatures, trackedPoints, isTracking,
                    currentPose, groundPlane, planeConfidence, imuData,
                    settings, frameCount, hist, result >>

\* init(): throws before any allocation when cv is undefined; otherwise
\* assigns six fresh empty Mats and sets the flag.
EngineInit ==
    /\ imuListeners < MaxListeners
    /\ IF cvLoaded
       THEN /\ grayFrame' = EmptyMat
            /\ prevGrayFrame' = EmptyMat
            /\ prevPoints' = EmptyPoints
            /\ nextPoints' = EmptyMat
            /\ released' = released \ InitFields
            /\ imuListeners' = imuListeners + 1
            /\ initialized' = TRUE
       ELSE UNCHANGED << grayFrame, prevGrayFrame, prevPoints, nextPoints,
                         released, imuListeners, initialized >>
    /\ step' = [op |-> "init", ret |-> IF cvLoaded THEN "done" ELSE "thrown",
                leaked |-> IF cvLoaded THEN Dropped(InitFields, Held) ELSE 0,
                again |-> initialized]
    /\ UNCHANGED << cvLoaded, frame, goodFeatures, trackedPoints, isTracking,
                    currentPose, groundPlane, planeConfidence, imuData,
                    settings, frameCount, hist, result >>

\* event.alpha || 0
OrZero(v) == IF v = Null THEN 0 ELSE v.deg

\* Mutant of SensorEvent: the listener is observed after its first write.
SensorEvent_Torn ==
    \E event \in SensorReadings :
        /\ imuListeners > 0
        /\ imuData' = [imuData EXCEPT !.alpha = OrZero(event.alpha)]
        /\ step' = [op |-> "sensor"]
        /\ UNCHANGED << cvLoaded, initialized, frame, grayFrame, prevGrayFrame,
                        prevPoints, goodFeatures, trackedPoints, isTracking, currentPose,
                        groundPlane, planeConfidence, settings, frameCount,
                        nextPoints, released, imuListeners, hist, result >>

\* The deviceorientation listener bound by bindIMU.
SensorEvent ==
    \E event \in SensorReadings :
        /\ imuListeners > 0
        /\ imuData' = [alpha |-> OrZero(event.alpha),
                       beta |-> OrZero(event.beta),
                       gamma |-> OrZero(event.gamma)]
        /\ step' = [op |-> "sensor"]
        /\ UNCHANGED << cvLoaded, initialized, frame, grayFrame, prevGrayFrame,
                        prevPoints, goodFeatures, trackedPoints, isTracking, currentPose,
                        groundPlane, planeConfidence, settings, frameCount,
                        nextPoints, released, imuListeners, hist,
                    result >>

(***************************************************************************)
(* updateSettings, reset                                                   *)
(***************************************************************************)
\* Object.assign(target, source)
ObjectAssign(target, source) ==
    [k \in DOMAIN target \cup DOMAIN source |->
        IF k \in DOMAIN source THEN source[k] ELSE target[k]]

\* Mutant of UpdateSettings: a settings change drops the plane and the pose.
UpdateSettings_RestartsTracking ==
    \E upd \in SettingsUpdates :
        /\ settings' = ObjectAssign(settings, upd)
        /\ groundPlane' = Null
        /\ currentPose' = Null
        /\ step' = [op |-> "updateSettings"]
        /\ UNCHANGED << cvLoaded, initialized, frame, grayFrame, prevGrayFrame,
                        prevPoints, goodFeatures, trackedPoints, isTracking,
                        planeConfidence, imuData, frameCount,
                        nextPoints, released, imuListeners, hist, result >>

UpdateSettings ==
    \E upd \in SettingsUpdates :
        /\ settings' = ObjectAssign(settings, upd)
        /\ step' = [op |-> "updateSettings"]
        /\ UNCHANGED << cvLoaded, initialized, frame, grayFrame, prevGrayFrame,
                        prevPoints, goodFeatures, trackedPoints, isTracking, currentPose,
                        groundPlane, planeConfidence, imuData, frameCount,
                        nextPoints, released, imuListeners, hist,
                    result >>

\* The history of a reset call: whether it threw, the operation before it,
\* and whether the run of resets it belongs to started from an engine that
\* had processed frames, gained confidence and held points.
ResetStep(thrown) ==
    [op |-> "reset",
     ret |-> IF thrown THEN "thrown" ELSE "done",
     leaked |-> 0,
     prevOp |-> step.op,
     dirty |-> IF step.op = "reset"
               THEN step.dirty
               ELSE /\ frameCount > 0
                    /\ planeConfidence > 0
                    /\ goodFeatures # << >>
                    /\ prevPoints # Null
                    /\ "prevPoints" \notin released
                    /\ Rows(prevPoints) > 0]

\* Mutant of Reset: the confidence is not cleared.
Reset_KeepsConfidence ==
    /\ isTracking' = FALSE
    /\ trackedPoints' = << >>
    /\ goodFeatures' = << >>
    /\ currentPose' = Null
    /\ groundPlane' = Null
    /\ frameCount' = 0
    /\ LET pointsThrow == prevPoints # Null /\ "prevPoints" \in released
           frameThrows == prevGrayFrame # Null /\ "prevGrayFrame" \in released
       IN  /\ prevPoints' = IF /\ prevPoints # Null
                               /\ ~pointsThrow
                               /\ Rows(prevPoints) > 0
                            THEN EmptyPoints ELSE prevPoints
           /\ prevGrayFrame' = IF /\ ~pointsThrow
                                  /\ prevGrayFrame # Null
                                  /\ ~frameThrows
                                  /\ prevGrayFrame.rows > 0
                               THEN EmptyMat ELSE prevGrayFrame
           /\ step' = ResetStep(pointsThrow \/ frameThrows)
    /\ hist' = NoHistory
    /\ UNCHANGED << planeConfidence, cvLoaded, initialized, frame, grayFrame, imuData, settings,
                    nextPoints, released, imuListeners, result >>

\* Mutant of Reset: the settings are put back to their defaults.
Reset_RestoresDefaults ==
    /\ isTracking' = FALSE
    /\ trackedPoints' = << >>
    /\ goodFeatures' = << >>
    /\ currentPose' = Null
    /\ groundPlane' = Null
    /\ planeConfidence' = 0
    /\ frameCount' = 0
    /\ settings' = DefaultSettings
    /\ LET pointsThrow == prevPoints # Null /\ "prevPoints" \in released
           frameThrows == prevGrayFrame # Null /\ "prevGrayFrame" \in released
       IN  /\ prevPoints' = IF /\ prevPoints # Null
                               /\ ~pointsThrow
                               /\ Rows(prevPoints) > 0
                            THEN EmptyPoints ELSE prevPoints
           /\ prevGrayFrame' = IF /\ ~pointsThrow
                                  /\ prevGrayFrame # Null
                                  /\ ~frameThrows
                                  /\ prevGrayFrame.rows > 0
                               THEN EmptyMat ELSE prevGrayFrame
           /\ step' = ResetStep(pointsThrow \/ frameThrows)
    /\ hist' = NoHistory
    /\ UNCHANGED << cvLoaded, initialized, frame, grayFrame, imuData,
                    nextPoints, released, imuListeners, result >>

Reset ==
    /\ isTracking' = FALSE
    /\ trackedPoints' = << >>
    /\ goodFeatures' = << >>
    /\ currentPose' = Null
    /\ groundPlane' = Null
    /\ planeConfidence' = 0
    /\ frameCount' = 0
    /\ LET pointsThrow == prevPoints # Null /\ "prevPoints" \in released
           frameThrows == prevGrayFrame # Null /\ "prevGrayFrame" \in released
       IN  /\ prevPoints' = IF /\ prevPoints # Null
                               /\ ~pointsThrow
                               /\ Rows(prevPoints) > 0
                            THEN EmptyPoints ELSE prevPoints
           /\ prevGrayFrame' = IF /\ ~pointsThrow
                                  /\ prevGrayFrame # Null
                                  /\ ~frameThrows
                                  /\ prevGrayFrame.rows > 0
                               THEN EmptyMat ELSE prevGrayFrame
           /\ step' = ResetStep(pointsThrow \/ frameThrows)
    /\ hist' = NoHistory
    /\ UNCHANGED << cvLoaded, initialized, frame, grayFrame, imuData, settings,
                    nextPoints, released, imuListeners, result >>

(***************************************************************************)
(* dispose                                                                 *)
(***************************************************************************)
\* The order of the delete() calls ("nextPoints": nextPoints, status, err).
DisposeOrder ==
    << "frame", "grayFrame", "prevGrayFrame", "prevPoints", "nextPoints" >>

\* The optional-chained delete() calls from the i-th on: a null field is
\* skipped, a Mat deleted before makes delete() throw, which ends dispose.
RECURSIVE DeleteFrom(_, _)
DeleteFrom(i, rel) ==
    IF i > Len(DisposeOrder)
    THEN [released |-> rel, thrown |-> FALSE]
    ELSE LET f == DisposeOrder[i]
         IN  IF f \notin Held
             THEN DeleteFrom(i + 1, rel)
             ELSE IF f \in rel
             THEN [released |-> rel, thrown |-> TRUE]
             ELSE DeleteFrom(i + 1, rel \cup {f})

Dispose ==
    \E d \in {DeleteFrom(1, released)} :
        /\ released' = d.released
        /\ step' = [op |-> "dispose",
                    ret |-> IF d.thrown THEN "thrown" ELSE "done",
                    leaked |-> 0]
        /\ UNCHANGED << cvLoaded, initialized, frame, grayFrame, prevGrayFrame,
                        prevPoints, goodFeatures, trackedPoints, isTracking,
                        currentPose, groundPlane, planeConfidence, imuData,
                        settings, frameCount, nextPoints, imuListeners, hist,
                    result >>

(***************************************************************************)
(* processFrame                                                            *)
(***************************************************************************)
\* Mutant of FrameValid: only the width is tested.
FrameValid_WidthOnly(w, h) == ~(w = 0)

\* The video has decoded dimensions.
FrameValid(w, h) == ~(w = 0 \/ h = 0)

\* Mutant of HasFeatures: the else branch compares with minFeatures too.
HasFeatures_AlwaysMin(track, featureCount, s) == featureCount >= s.minFeatures

\* result.hasFeatures: in the tracking branch and in the else branch.
HasFeatures(track, featureCount, s) ==
    IF track THEN featureCount >= s.minFeatures ELSE featureCount > 0

\* Mutant of TrackingFlag: the flag, once set, is only cleared by reset.
TrackingFlag_Latched(old, res) == old \/ res.isTracking

\* this.isTracking = result.isTracking, the statement after the try block:
\* old is the field before it, res the result about to be returned.
TrackingFlag(old, res) == res.isTracking

NoDetect == [throws |-> FALSE, n |-> 0, bad |-> FALSE]
NoFlow == Flow(Lost, Lost)

\* The history of a processFrame call that returned before the pipeline.
FrameStep(ret, w, h) ==
    [op |-> "processFrame", ret |-> ret, w |-> w, h |-> h,
     leaked |-> 0, usedReleased |-> FALSE]

\* The Mats detectFeatures drops without delete(): the old prevPoints when
\* it is empty, and, when goodFeaturesToTrack throws, the mask and the Mat
\* the catch block replaces.
DetectLeaks(rows, det) ==
    (IF rows > 0 THEN 0 ELSE 1) + (IF det.throws THEN 2 ELSE 0)

\* The Mats trackPoints drops without delete(): nextPoints, status and err
\* when they are empty.
TrackLeaks(np) == IF np.rows > 0 THEN 0 ELSE 3

\* Mutant of DrawDebug: the correspondences are consumed while being drawn.
DrawDebug_ConsumesVectors(e, res) ==
    [fields |-> [e EXCEPT !.trackedPoints = << >>],
     canvas |-> [dots |-> Len(e.goodFeatures),
                 vectors |-> Len(e.trackedPoints),
                 plane |-> /\ e.groundPlane # Null
                           /\ e.planeConfidence > DrawThreshold,
                 frame |-> e.frameCount,
                 features |-> Len(e.goodFeatures),
                 tracked |-> Len(e.trackedPoints),
                 confidence |-> e.planeConfidence,
                 status |-> IF res.isTracking THEN "TRACKING"
                            ELSE IF res.hasFeatures THEN "SEARCHING"
                            ELSE "NO FEATURES"]]

\* drawDebug(result), with the page's debug canvas present: what it paints
\* (the marks and the five status lines) and the fields as it leaves them.
\* e holds the fields it reads.
DrawDebug(e, res) ==
    [fields |-> e,
     canvas |-> [dots |-> Len(e.goodFeatures),
                 vectors |-> Len(e.trackedPoints),
                 plane |-> /\ e.groundPlane # Null
                           /\ e.planeConfidence > DrawThreshold,
                 frame |-> e.frameCount,
                 features |-> Len(e.goodFeatures),
                 tracked |-> Len(e.trackedPoints),
                 confidence |-> e.planeConfidence,
                 status |-> IF res.isTracking THEN "TRACKING"
                            ELSE IF res.hasFeatures THEN "SEARCHING"
                            ELSE "NO FEATURES"]]

\* The history after a frame that went through the pipeline: the runs of
\* consecutive frames with coherent motion over at least minFeatures
\* correspondences (coherent) and over at least 8 as well (floored), and
\* the frame number fc of the first flow failure that detection has not
\* followed yet (0: none).
FrameHistory(h, fc, detect, failed, coherent, floored) ==
    [coherent |-> IF coherent THEN Min(RunCap, h.coherent + 1) ELSE 0,
     floored |-> IF floored THEN Min(RunCap, h.floored + 1) ELSE 0,
     failedAt |-> IF failed /\ (detect \/ h.failedAt = 0) THEN fc
                  ELSE IF detect THEN 0 ELSE h.failedAt]

\* The part of processFrame after trackPoints (or its else branch): tr is
\* what tracking left, pp1 the point Mat detection left.  step records the
\* call's inputs and the branches it took.
Finish(w, h, frame1, detect, det, track, flow, pp1, tr) ==
    LET featureCount == IF track THEN Len(tr.good) ELSE Rows(tr.prev)
        hasFeatures == HasFeatures(track, featureCount, settings)
        estimate == track /\ hasFeatures
    IN  \E ep \in {IF estimate
                   THEN EstimatePlane(tr.tracked, tr.good, planeConfidence,
                                      groundPlane)
                   ELSE [conf |-> planeConfidence, plane |-> groundPlane,
                         found |-> FALSE, kind |-> "none"]} :
        \E pose \in {IF ep.found
                     THEN EstimatePose(ep.plane, imuData, currentPose)
                     ELSE currentPose} :
        \E res \in {[isTracking |-> ep.found,
                     hasFeatures |-> hasFeatures,
                     featureCount |-> featureCount,
                     planeCount |-> IF ep.found THEN 1 ELSE 0,
                     pose |-> IF ep.found THEN pose ELSE Null]} :
        \E dd \in {DrawDebug([goodFeatures |-> tr.good,
                              trackedPoints |-> tr.tracked,
                              groundPlane |-> ep.plane,
                              planeConfidence |-> ep.conf,
                              currentPose |-> pose,
                              frameCount |-> frameCount + 1], res)} :
            /\ frame' = frame1
            /\ grayFrame' = [rows |-> h, cols |-> w]
            /\ frameCount' = dd.fields.frameCount
            /\ prevPoints' = tr.prev
            /\ goodFeatures' = dd.fields.goodFeatures
            /\ trackedPoints' = dd.fields.trackedPoints
            /\ planeConfidence' = dd.fields.planeConfidence
            /\ groundPlane' = dd.fields.groundPlane
            /\ currentPose' = dd.fields.currentPose
            /\ prevGrayFrame' = [rows |-> h, cols |-> w]
            /\ isTracking' = TrackingFlag(isTracking, res)
            /\ nextPoints' = IF track /\ Rows(pp1) > 0
                             THEN [rows |-> IF flow.throws THEN 0 ELSE Rows(pp1),
                                   cols |-> IF flow.throws THEN 0 ELSE 1]
                             ELSE nextPoints
            /\ result' = res
            /\ hist' = FrameHistory(hist, frameCount + 1, detect, tr.failed,
                                    \/ ep.kind = "coherent"
                                    \/ /\ ep.kind = "few"
                                       /\ tr.tracked # << >>
                                       /\ IsCoherent(tr.tracked),
                                    ep.kind = "coherent")
            /\ step' = [op |-> "processFrame", ret |-> "done",
                        w |-> w, h |-> h,
                        startRows |-> Rows(prevPoints),
                        hadPrev |-> prevGrayFrame.rows > 0,
                        prevW |-> prevGrayFrame.cols,
                        prevH |-> prevGrayFrame.rows,
                        confBefore |-> planeConfidence,
                        detect |-> detect,
                        detN |-> IF detect /\ ~det.throws THEN det.n ELSE 0,
                        track |-> track,
                        inPts |-> IF track THEN pp1.pts ELSE << >>,
                        flow |-> flow,
                        flowFailed |-> tr.failed,
                        plane |-> ep.kind,
                        det |-> det,
                        drawn |-> dd.canvas,
                        refreshed |-> detect /\ hist.failedAt > 0,
                        leaked |-> (IF detect
                                    THEN DetectLeaks(Rows(prevPoints), det)
                                    ELSE 0)
                                 + (IF track /\ Rows(pp1) > 0
                                    THEN TrackLeaks(nextPoints)
                                    ELSE 0),
                        usedReleased |-> FALSE]
            /\ UNCHANGED << cvLoaded, initialized, imuData, settings,
                            released, imuListeners >>

ProcessFrame(maxFrames, videoSizes, captures, detectOutcomes, flowOutcomes) ==
    \E size \in videoSizes, captureThrows \in captures :
        LET w == size[1]
            h == size[2]
        IN  IF ~initialized
            THEN /\ result' = DefaultResult
                 /\ step' = FrameStep("uninitialized", w, h)
                 /\ UNCHANGED << cvLoaded, initialized, frame, grayFrame,
                                 prevGrayFrame, prevPoints, goodFeatures, trackedPoints,
                                 isTracking, currentPose, groundPlane,
                                 planeConfidence, imuData, settings, frameCount,
                                 nextPoints, released, imuListeners, hist >>
            ELSE IF ~FrameValid(w, h)
            THEN /\ result' = DefaultResult
                 /\ step' = FrameStep("invalid", w, h)
                 /\ UNCHANGED << cvLoaded, initialized, frame, grayFrame,
                                 prevGrayFrame, prevPoints, goodFeatures, trackedPoints,
                                 isTracking, currentPose, groundPlane,
                                 planeConfidence, imuData, settings, frameCount,
                                 nextPoints, released, imuListeners, hist >>
            ELSE IF frame # Null /\ "frame" \in released
            THEN \* this.frame.rows on a deleted Mat throws
                 /\ isTracking' = TrackingFlag(isTracking, DefaultResult)
                 /\ result' = DefaultResult
                 /\ step' = [FrameStep("caught", w, h) EXCEPT !.usedReleased = TRUE]
                 /\ hist' = [hist EXCEPT !.coherent = 0, !.floored = 0]
                 /\ UNCHANGED << cvLoaded, initialized, frame, grayFrame,
                                 prevGrayFrame, prevPoints, goodFeatures, trackedPoints,
                                 currentPose, groundPlane, planeConfidence,
                                 imuData, settings, frameCount, nextPoints,
                                 released, imuListeners >>
            ELSE LET frame1 == IF frame = Null \/ frame.rows # h \/ frame.cols # w
                               THEN [rows |-> h, cols |-> w]
                               ELSE frame
                     grayGone == "grayFrame" \in released
                 IN  IF captureThrows \/ grayGone
                     THEN \* the capture throws, or cvtColor is handed a
                          \* deleted grayFrame and throws
                          /\ frame' = frame1
                          /\ isTracking' = TrackingFlag(isTracking, DefaultResult)
                          /\ result' = DefaultResult
                          /\ step' = [FrameStep("caught", w, h) EXCEPT
                                          !.usedReleased = ~captureThrows]
                          /\ hist' = [hist EXCEPT !.coherent = 0, !.floored = 0]
                          /\ UNCHANGED << cvLoaded, initialized, grayFrame,
                                          prevGrayFrame, prevPoints, goodFeatures, trackedPoints,
                                          currentPose, groundPlane, planeConfidence,
                                          imuData, settings, frameCount,
                                          nextPoints, released, imuListeners >>
                     ELSE /\ frameCount < maxFrames
                          /\ LET detect == NeedsDetect(Rows(prevPoints),
                                                       frameCount + 1, settings)
                             IN  \E det \in IF detect THEN detectOutcomes ELSE {NoDetect} :
                                 \E pp1 \in {IF detect THEN DetectFeatures(det)
                                             ELSE prevPoints} :
                                   LET track == /\ prevGrayFrame.rows > 0
                                                /\ Rows(pp1) >= settings.minFeatures
                                   IN  \E flow \in IF track /\ Rows(pp1) > 0
                                                   THEN {f \in flowOutcomes :
                                                           FlowInImage(pp1, f)}
                                                   ELSE {NoFlow} :
                                       \E tr \in {IF track
                                                  THEN TrackPoints(pp1, goodFeatures,
                                                                   trackedPoints, flow)
                                                  ELSE [good |-> goodFeatures,
                                                        tracked |-> trackedPoints,
                                                        prev |-> pp1,
                                                        failed |-> FALSE]} :
                                           Finish(w, h, frame1, detect, det, track,
                                                  flow, pp1, tr)

(***************************************************************************)
(* Specifications.  All run the same operations from the same initial      *)
(* state; they differ in the inputs the environment delivers.              *)
(*   Spec         every operation, a few whole-frame flow outcomes         *)
(*   SpecLong     long runs of frames (refresh cadence, confidence bounds) *)
(*   SpecFlow     short runs, every per-point flow sample, changed settings*)
(*   SpecLife     the lifecycle operations around short runs of frames     *)
(*   SpecRefresh  long runs of frames with failing flow computations       *)
(*   SpecResize   short runs of frames of a video that changes its size    *)
(***************************************************************************)
Next ==
    \/ LoadOpenCV
    \/ EngineInit
    \/ SensorEvent
    \/ Reset
    \/ ProcessFrame(MaxFrames, VideoSizes, BOOLEAN, DetectOutcomes, FlowOutcomes)

Spec == Init /\ [][Next]_vars

\* SpecLife: the lifecycle operations (init, reset, dispose, settings,
\* sensor events) around short runs of frames.
NextLife ==
    \/ LoadOpenCV
    \/ EngineInit
    \/ SensorEvent
    \/ UpdateSettings
    \/ Reset
    \/ Dispose
    \/ ProcessFrame(LifeFrames, {<<64, 48>>}, {FALSE}, LifeDetects, LifeFlows)

SpecLife == Init /\ [][NextLife]_vars

\* In SpecLong the caller initializes the engine once.
NextLong ==
    \/ LoadOpenCV
    \/ ~initialized /\ EngineInit
    \/ Reset
    \/ ProcessFrame(LongFrames, {<<64, 48>>}, {FALSE}, LongDetects, LongFlows)

SpecLong == Init /\ [][NextLong]_vars

NextFlow ==
    \/ LoadOpenCV
    \/ EngineInit
    \/ UpdateSettings
    \/ ProcessFrame(FlowFrames, {<<64, 48>>}, {FALSE}, AllDetects, AllFlows)

SpecFlow == Init /\ [][NextFlow]_vars

\* SpecRefresh: long runs of frames on which the flow computation may fail.
NextRefresh ==
    \/ LoadOpenCV
    \/ ~initialized /\ EngineInit
    \/ ProcessFrame(RefreshFrames, {<<64, 48>>}, {FALSE}, LongDetects, RefreshFlows)

SpecRefresh == Init /\ [][NextRefresh]_vars

\* SpecResize: short runs of frames of a video that changes its size.
NextResize ==
    \/ LoadOpenCV
    \/ EngineInit
    \/ Reset
    \/ ProcessFrame(FlowFrames, ChangingSizes, {FALSE}, LifeDetects, RefreshFlows)

SpecResize == Init /\ [][NextResize]_vars

(***************************************************************************)
(* Properties.                                                             *)
(***************************************************************************)
\* The last operation was a processFrame call that ran the whole pipeline.
Done == step.op = "processFrame" /\ step.ret = "done"

\* Sum of the first k elements of a sequence of numbers.
RECURSIVE Total(_, _)
Total(q, k) == IF k = 0 THEN 0 ELSE q[k] + Total(q, k - 1)

\* The displacement variance of the correspondences tp is below v:
\* variance = E[d.d] - E[d].E[d], multiplied through by n^2.
VarianceBelow(tp, v) ==
    LET n == Len(tp)
        dxs == [k \in 1..n |-> tp[k].curr.x - tp[k].prev.x]
        dys == [k \in 1..n |-> tp[k].curr.y - tp[k].prev.y]
        sq == [k \in 1..n |-> dxs[k] * dxs[k] + dys[k] * dys[k]]
    IN  n * Total(sq, n) - Total(dxs, n) * Total(dxs, n)
                         - Total(dys, n) * Total(dys, n) < v * n * n

\* The frame ran the flow computation and the plane estimator saw its
\* correspondences (enough features survived).
Estimated ==
    /\ Done
    /\ step.track
    /\ ~step.flowFailed
    /\ Len(trackedPoints) >= settings.minFeatures

CoherentFrame ==
    /\ Estimated
    /\ Len(trackedPoints) >= MinCorrespondences
    /\ VarianceBelow(trackedPoints, CoherenceThreshold)

IncoherentFrame ==
    /\ Estimated
    /\ Len(trackedPoints) >= MinCorrespondences
    /\ ~VarianceBelow(trackedPoints, CoherenceThreshold)

\* C1: in every reachable state planeConfidence lies in [0,1] (0..100
\* hundredths), however many increments or decrements were applied.
C1_ConfidenceInUnitInterval ==
    planeConfidence >= 0 /\ planeConfidence <= ConfOne

\* C1 witness: a coherent frame whose increment would pass 1 and is capped.
C1_CappedAtOne ==
    /\ CoherentFrame
    /\ step.confBefore + ConfStepUp > ConfOne
    /\ planeConfidence = ConfOne

\* C2: on every frame that reaches the refresh decision, detectFeatures is
\* invoked exactly when the point count held at the start of the frame is
\* below minFeatures or the incremented frame counter is a multiple of
\* featureRefreshInterval.
C2_DetectExactlyWhenDue ==
    [][frameCount' = frameCount + 1 =>
          (step'.detect <=>
              \/ Rows(prevPoints) < settings.minFeatures
              \/ frameCount' % settings.featureRefreshInterval = 0)]_vars

\* C2 witness: detection invoked by the interval alone, at frame 15 with
\* enough points held and the default settings.
C2_RefreshByInterval ==
    /\ Done
    /\ step.detect
    /\ settings.minFeatures = DefaultMinFeatures
    /\ settings.featureRefreshInterval = DefaultRefreshInterval
    /\ step.startRows >= DefaultMinFeatures
    /\ frameCount = DefaultRefreshInterval

\* The frame ran the flow computation and it produced correspondences.
Tracked == Done /\ step.track /\ ~step.flowFailed

\* C3: on every processed frame the confidence becomes min(1, c + 0.15)
\* if the frame is a coherent-motion frame and max(0, c - 0.1) on every
\* other processed frame (incoherent, tracking skipped, flow failed, too
\* few surviving points); it stays unchanged only when clamped at a bound.
C3_EveryFrameMovesConfidence ==
    Done =>
        planeConfidence =
            IF /\ Tracked
               /\ Len(trackedPoints) >= MinCorrespondences
               /\ VarianceBelow(trackedPoints, CoherenceThreshold)
            THEN Min(ConfOne, step.confBefore + ConfStepUp)
            ELSE Max(0, step.confBefore - ConfStepDown)

\* C4: whenever estimatePlane runs with fewer than 8 correspondences, no
\* plane is reported for the frame and the confidence after the call is at
\* most the confidence before it.
C4_TooFewRejects ==
    (Estimated /\ Len(trackedPoints) < MinCorrespondences) =>
        /\ ~result.isTracking
        /\ result.planeCount = 0
        /\ planeConfidence <= step.confBefore

\* C4 witness: estimatePlane ran on fewer than 8 correspondences with a
\* positive confidence, and lowered it.
C4_TooFewLowers ==
    /\ Estimated
    /\ Len(trackedPoints) < MinCorrespondences
    /\ step.confBefore > 0
    /\ planeConfidence < step.confBefore
    /\ result.planeCount = 0

\* num / den = p / q
SameRatio(r, p, q) == r.den # 0 /\ q # 0 /\ r.num * q = p * r.den

\* C5: whenever a frame has at least 8 correspondences whose displacement
\* variance is below 100, the confidence after the frame is
\* min(1, before + 0.15) and the stored plane has the mean of the current
\* feature positions as center, the updated confidence, and the mean
\* displacement as motion.
C5_CoherentFrameRaisesConfidence ==
    (/\ Tracked
     /\ Len(trackedPoints) >= MinCorrespondences
     /\ VarianceBelow(trackedPoints, CoherenceThreshold)) =>
        LET n == Len(trackedPoints)
            m == Len(goodFeatures)
            xs == [k \in 1..m |-> goodFeatures[k].x]
            ys == [k \in 1..m |-> goodFeatures[k].y]
            dxs == [k \in 1..n |-> trackedPoints[k].curr.x - trackedPoints[k].prev.x]
            dys == [k \in 1..n |-> trackedPoints[k].curr.y - trackedPoints[k].prev.y]
        IN  /\ planeConfidence = Min(ConfOne, step.confBefore + ConfStepUp)
            /\ step.confBefore < ConfOne => planeConfidence > step.confBefore
            /\ groundPlane # Null
            /\ groundPlane.confidence = planeConfidence
            /\ SameRatio(groundPlane.center.x, Total(xs, m), m)
            /\ SameRatio(groundPlane.center.y, Total(ys, m), m)
            /\ SameRatio(groundPlane.motion.dx, Total(dxs, n), n)
            /\ SameRatio(groundPlane.motion.dy, Total(dys, n), n)

\* Row i of the points handed to the flow computation, with the position the
\* flow computation gave it.
PairAt(i) ==
    LET p == step.inPts[i]
        n == FlowAt(p, SampleAt(step.flow, i))
    IN  [prev |-> [x |-> p.x, y |-> p.y], curr |-> [x |-> n.x, y |-> n.y]]

\* Row i has its validity flag set, four finite coordinates and a
\* displacement strictly below the outlier bound.
Retainable(i) ==
    LET c == PairAt(i)
    IN  /\ SampleAt(step.flow, i).st = 1
        /\ IsFinite(c.prev.x) /\ IsFinite(c.prev.y)
        /\ IsFinite(c.curr.x) /\ IsFinite(c.curr.y)
        /\ (c.curr.x - c.prev.x) * (c.curr.x - c.prev.x)
             + (c.curr.y - c.prev.y) * (c.curr.y - c.prev.y)
               < OutlierBound * OutlierBound

\* C6: after a tracking step every entry of the correspondence list and of
\* the point set comes from a row whose validity flag is set, whose previous
\* and current coordinates are finite and whose displacement is strictly
\* below 50; a row violating one of these is in neither.
C6_OnlyValidPointsKept ==
    Tracked =>
        LET rows == 1..Len(step.inPts)
            kept == 1..Len(trackedPoints)
        IN  /\ \A k \in kept :
                   \E i \in rows : Retainable(i) /\ trackedPoints[k] = PairAt(i)
            /\ Len(goodFeatures) = Len(trackedPoints)
            /\ Rows(prevPoints) = Len(trackedPoints)
            /\ \A k \in kept :
                   /\ goodFeatures[k] = trackedPoints[k].curr
                   /\ prevPoints.pts[k] = trackedPoints[k].curr
            /\ \A i \in rows :
                   ~Retainable(i) =>
                       \A k \in kept :
                           /\ trackedPoints[k] # PairAt(i)
                           /\ goodFeatures[k] # PairAt(i).curr

\* C6 witness: a tracking step that dropped the valid rows displaced by
\* exactly the outlier bound and a row with a non-finite coordinate, and
\* kept others.
C6_OutlierAndInvalidDropped ==
    /\ Tracked
    /\ Len(trackedPoints) > 0
    /\ \E i \in 1..Len(step.inPts) :
           /\ SampleAt(step.flow, i).st = 1
           /\ IsFinite(PairAt(i).prev.y) /\ IsFinite(PairAt(i).prev.x)
           /\ PairAt(i).curr.y - PairAt(i).prev.y = OutlierBound
    /\ \E i \in 1..Len(step.inPts) :
           SampleAt(step.flow, i).st = 1 /\ ~IsFinite(PairAt(i).prev.x)
    /\ Len(trackedPoints) < Len(step.inPts) - 1

\* A valid frame processed with no previous frame and no tracked points,
\* under minFeatures = 15.
FirstFrame ==
    /\ Done
    /\ ~step.hadPrev
    /\ step.startRows = 0
    /\ settings.minFeatures = DefaultMinFeatures

\* C7 as stated: the first frame returns hasFeatures = false and
\* isTracking = false, with featureCount the number of points the detector
\* returned, whatever that number is.
C7_FirstFrameHasNoFeatures ==
    FirstFrame =>
        /\ ~result.hasFeatures
        /\ ~result.isTracking
        /\ result.featureCount = step.detN

\* C7 amended: the first frame returns isTracking = false and featureCount
\* the number of points the detector returned; hasFeatures is true exactly
\* when that number is greater than 0.
C7_FirstFrameReportsDetected ==
    FirstFrame =>
        /\ result.hasFeatures <=> step.detN > 0
        /\ ~result.isTracking
        /\ result.featureCount = step.detN
        /\ result.planeCount = 0

\* C7 witness: a first frame on which the detector returned points, fewer
\* than minFeatures, and hasFeatures is true.
C7_FirstFrameWithPoints ==
    /\ FirstFrame
    /\ step.detN > 0
    /\ step.detN < DefaultMinFeatures
    /\ result.hasFeatures
    /\ result.featureCount = step.detN

\* C8: on a coherent frame the plane is reported trackable (isTracking
\* true, planeCount 1) exactly when the confidence after the increment is
\* strictly greater than 0.5.
C8_TrackableAboveHalf ==
    CoherentFrame =>
        /\ planeConfidence = Min(ConfOne, step.confBefore + ConfStepUp)
        /\ result.isTracking <=> planeConfidence > AcceptThreshold
        /\ result.planeCount = (IF planeConfidence > AcceptThreshold THEN 1 ELSE 0)
        /\ isTracking = result.isTracking

\* C8 witness: from confidence 0.4 a coherent frame with 20 correspondences
\* gives 0.55 and isTracking = true.
C8_FromFortyToFiftyFive ==
    /\ CoherentFrame
    /\ Len(trackedPoints) = 20
    /\ step.confBefore = 40
    /\ planeConfidence = 55
    /\ result.isTracking
    /\ result.planeCount = 1

\* C9: on a frame with enough correspondences whose displacement variance is
\* at or above the threshold, the confidence becomes max(0, before - 0.1)
\* and the plane is reported not trackable, whatever the confidence is.
C9_IncoherentNeverTrackable ==
    IncoherentFrame =>
        /\ planeConfidence = Max(0, step.confBefore - ConfStepDown)
        /\ ~result.isTracking
        /\ result.planeCount = 0
        /\ result.pose = Null

\* C9 witness: 20 correspondences with variance exactly at the threshold
\* take the confidence from 0.6 to 0.5, with isTracking = false.
C9_FromSixtyToFifty ==
    /\ IncoherentFrame
    /\ Len(trackedPoints) = 20
    /\ ~VarianceBelow(trackedPoints, CoherenceThreshold)
    /\ VarianceBelow(trackedPoints, CoherenceThreshold + 1)
    /\ step.confBefore = 60
    /\ planeConfidence = 50
    /\ ~result.isTracking

\* C10: a processFrame call on a frame of zero width or zero height
\* returns the default result (isTracking false, hasFeatures false,
\* featureCount 0, planeCount 0, pose null) and leaves the frame counter,
\* point set, previous frame, correspondences, plane, confidence, pose and
\* the engine's tracking flag unchanged.
C10_InvalidFrameNoEffect ==
    [][(step'.op = "processFrame" /\ (step'.w = 0 \/ step'.h = 0)) =>
          /\ result' = [isTracking |-> FALSE, hasFeatures |-> FALSE,
                        featureCount |-> 0, planeCount |-> 0, pose |-> Null]
          /\ UNCHANGED << frameCount, prevPoints, prevGrayFrame, grayFrame, frame,
                          trackedPoints, goodFeatures, groundPlane,
                          planeConfidence, currentPose, isTracking, settings,
                          imuData, initialized >>]_vars

\* C10 witness: an invalid frame handed to an engine that is tracking, which
\* keeps its tracking flag, pose and frame counter.
C10_InvalidFrameWhileTracking ==
    /\ step.op = "processFrame"
    /\ step.ret = "invalid"
    /\ step.w = 0 \/ step.h = 0
    /\ initialized
    /\ isTracking
    /\ frameCount > 0
    /\ currentPose # Null
    /\ planeConfidence > AcceptThreshold
    /\ ~result.isTracking

\* C11: in every result processFrame returns, pose is non-null exactly when
\* isTracking is true, planeCount is 0 or 1 and is 1 exactly when
\* isTracking is true, and featureCount is a non-negative integer.
C11_ResultWellFormed ==
    /\ result.pose # Null <=> result.isTracking
    /\ result.planeCount \in {0, 1}
    /\ result.planeCount = 1 <=> result.isTracking
    /\ result.featureCount \in Nat

\* C11 witness: a frame that returned a tracking result with its pose.
C11_TrackingResultHasPose ==
    /\ Done
    /\ result.isTracking
    /\ result.pose # Null
    /\ result.pose.confidence = planeConfidence
    /\ result.planeCount = 1
    /\ result.featureCount >= DefaultMinFeatures

\* C12: every processFrame call returns a result record, whatever throws
\* inside it; a frame whose flow computation throws has no correspondences
\* and no tracked features (featureCount 0, isTracking false), and a frame
\* whose detection throws leaves the tracked point set empty.
C12_FailuresRecoveredLocally ==
    step.op = "processFrame" =>
        /\ step.ret \in {"uninitialized", "invalid", "caught", "done"}
        /\ step.ret # "done" => result = DefaultResult
        /\ (Done /\ step.track /\ step.flowFailed) =>
               /\ trackedPoints = << >>
               /\ goodFeatures = << >>
               /\ result.featureCount = 0
               /\ ~result.hasFeatures
               /\ ~result.isTracking
               /\ ~isTracking
        /\ (Done /\ step.detect /\ step.det.throws) =>
               /\ Rows(prevPoints) = 0
               /\ ~step.track
               /\ result.featureCount = 0

\* C12 witness: the flow computation threw on a frame that entered tracking
\* with a plane accepted on the frame before.
C12_FlowThrewWhileTracking ==
    /\ Done
    /\ step.track
    /\ step.flowFailed
    /\ Len(step.inPts) >= DefaultMinFeatures
    /\ step.confBefore > AcceptThreshold
    /\ result.featureCount = 0
    /\ ~result.isTracking

\* The engine's fields other than the record returned to the caller.
engine ==
    << initialized, frame, grayFrame, prevGrayFrame, prevPoints, goodFeatures,
       trackedPoints, isTracking, currentPose, groundPlane, planeConfidence,
       imuData, settings, frameCount, nextPoints, released, imuListeners >>

\* C13: when the vision library is unavailable init throws to its caller,
\* allocates no buffer and leaves the engine uninitialized; a processFrame
\* call on an engine that is not initialized returns the no-tracking,
\* no-features result and changes no engine state.
C13_NoPartialEngine ==
    [][/\ (step'.op = "init" /\ ~cvLoaded) =>
              /\ step'.ret = "thrown"
              /\ ~initialized'
              /\ UNCHANGED engine
       /\ (step'.op = "processFrame" /\ ~initialized) =>
              /\ result' = [isTracking |-> FALSE, hasFeatures |-> FALSE,
                            featureCount |-> 0, planeCount |-> 0, pose |-> Null]
              /\ UNCHANGED engine]_vars

\* C13 witness: a processFrame call on an engine that could not be
\* initialized because the library is unavailable.
C13_FrameWithoutLibrary ==
    /\ step.op = "processFrame"
    /\ step.ret = "uninitialized"
    /\ ~cvLoaded
    /\ ~initialized
    /\ grayFrame = Null
    /\ nextPoints = Null
    /\ frameCount = 0

\* The engine holds no readable point rows / previous image.
NoPoints ==
    prevPoints = Null \/ "prevPoints" \in released \/ Rows(prevPoints) = 0
NoPrevFrame ==
    prevGrayFrame = Null \/ "prevGrayFrame" \in released \/ prevGrayFrame.rows = 0

\* The cleared tracking state.
Cleared ==
    /\ ~isTracking
    /\ trackedPoints = << >>
    /\ goodFeatures = << >>
    /\ NoPoints
    /\ NoPrevFrame
    /\ groundPlane = Null
    /\ currentPose = Null
    /\ planeConfidence = 0
    /\ frameCount = 0

\* C14: from any reachable state, reset leaves the tracking flag false, the
\* point set and correspondences empty, no previous frame, no plane, no
\* pose, confidence 0 and frame counter 0, and a second reset right after
\* it changes nothing.
C14_ResetIdempotent ==
    [][step'.op = "reset" =>
          /\ Cleared'
          /\ step.op = "reset" => UNCHANGED << engine, result >>]_vars

\* C14 witness: the second of two resets in a row, the first of which
\* cleared an engine that held points, confidence and a frame count.
C14_SecondReset ==
    /\ step.op = "reset"
    /\ step.prevOp = "reset"
    /\ step.dirty
    /\ step.ret = "done"
    /\ Cleared

\* C15: reset clears the feature set, correspondences, plane, confidence and
\* frame counter, and leaves the settings, the initialized flag, the
\* orientation sample and the allocated buffers as they were (every field
\* that held a Mat still holds one, none is released or dropped).
C15_ResetKeepsConfiguration ==
    [][step'.op = "reset" =>
          /\ goodFeatures' = << >>
          /\ trackedPoints' = << >>
          /\ groundPlane' = Null
          /\ planeConfidence' = 0
          /\ frameCount' = 0
          /\ UNCHANGED << settings, initialized, imuData, imuListeners,
                          frame, grayFrame, nextPoints, released >>
          /\ Held' = Held
          /\ step'.leaked = 0]_vars

\* C15 witness: a reset between frames of an engine with changed settings
\* and a non-zero orientation sample that held points and confidence.
C15_ResetBetweenFrames ==
    /\ step.op = "reset"
    /\ step.prevOp = "processFrame"
    /\ step.dirty
    /\ step.ret = "done"
    /\ initialized
    /\ settings.minFeatures # DefaultMinFeatures
    /\ imuData.alpha # 0
    /\ frame # Null
    /\ Held = InitFields \cup {"frame"}
    /\ released = {}
    /\ frameCount = 0

\* C16: after dispose every buffer the engine held has been released, and a
\* processFrame call made after dispose and before a new init performs no
\* read or write on a released buffer and returns the no-tracking result.
C16_DisposedEngineInert ==
    [][/\ step'.op = "dispose" => Held' \subseteq released'
       /\ (step.op = "dispose" /\ step'.op = "processFrame") =>
              /\ ~step'.usedReleased
              /\ result' = [isTracking |-> FALSE, hasFeatures |-> FALSE,
                            featureCount |-> 0, planeCount |-> 0, pose |-> Null]]_vars

\* C17: a second init on an initialized engine leaves the engine in the state
\* the first call left, drops no Mat of the first call unreleased, and
\* leaves a single orientation listener.
C17_InitIdempotent ==
    [][(step.op = "init" /\ step.ret = "done" /\ step'.op = "init") =>
          /\ UNCHANGED engine
          /\ step'.leaked = 0
          /\ imuListeners' = 1]_vars

\* C18: in every processFrame call, whenever a Mat field (prevPoints,
\* nextPoints, status, err, the detection mask) is replaced, the Mat it held
\* has been released, on every exit path: no call drops a Mat unreleased.
C18_FramesDropNoMat ==
    step.op = "processFrame" => step.leaked = 0

\* C19: on a frame in which detection runs, the tracking step of that frame
\* is not fed the points detected in that frame.
C19_FreshPointsWaitOneFrame ==
    (Done /\ step.detect /\ ~step.det.throws /\ step.det.n > 0) =>
        ~(step.track /\ step.inPts = DetectFeatures(step.det).pts)

\* C20: on every frame where the tracking step is skipped, the
\* correspondence list and the feature list are empty.
C20_SkippedFrameHoldsNothing ==
    (Done /\ ~step.track) =>
        /\ trackedPoints = << >>
        /\ goodFeatures = << >>

\* C21: a processFrame call that does not find coherent motion (incoherent
\* motion, too few correspondences, tracking skipped or failed, or a call
\* that returns early) leaves groundPlane and currentPose exactly as they
\* were; and a call that does not report tracking leaves currentPose as it
\* was.
C21_RejectedFrameKeepsPlaneAndPose ==
    [][step'.op = "processFrame" =>
          /\ ~CoherentFrame' => UNCHANGED << groundPlane, currentPose >>
          /\ ~result'.isTracking => UNCHANGED currentPose]_vars

\* C21 witness: an incoherent frame ended the tracking and the plane and the
\* pose of the frames before it are still stored.
C21_StalePlaneAndPoseKept ==
    /\ IncoherentFrame
    /\ ~result.isTracking
    /\ groundPlane # Null
    /\ currentPose # Null
    /\ groundPlane.confidence > planeConfidence

\* C22: every processFrame call that runs the pipeline adds exactly 1 to
\* frameCount; no operation other than reset or dispose lowers frameCount,
\* and none of them makes a stored groundPlane or currentPose absent.
C22_TrackingStateSurvivesCalls ==
    [][/\ (step'.op = "processFrame" /\ step'.ret = "done") =>
              frameCount' = frameCount + 1
       /\ step'.op \notin {"reset", "dispose"} =>
              /\ frameCount' >= frameCount
              /\ groundPlane # Null => groundPlane' # Null
              /\ currentPose # Null => currentPose' # Null]_vars

\* C22 witness: a settings update on an engine that holds a plane and a
\* pose after five or more frames.
C22_SettingsChangedWhileTracking ==
    /\ step.op = "updateSettings"
    /\ frameCount >= 5
    /\ groundPlane # Null
    /\ currentPose # Null

\* The orientation samples a frame can see: the initial zeros and the whole
\* samples the sensor delivers, an absent angle read as 0.
WholeSamples ==
    {[alpha |-> 0, beta |-> 0, gamma |-> 0]} \cup
    {[alpha |-> IF r.alpha = Null THEN 0 ELSE r.alpha.deg,
      beta |-> IF r.beta = Null THEN 0 ELSE r.beta.deg,
      gamma |-> IF r.gamma = Null THEN 0 ELSE r.gamma.deg] : r \in SensorReadings}

\* C23: under every interleaving of sensor events and frames the stored
\* orientation is one whole sample (never a mix of two), the rotation of a
\* pose computed by a frame is the conversion of that one sample, and a
\* sensor event can always be delivered once the listener is bound.
C23_RotationFromOneSample ==
    /\ imuData \in WholeSamples
    /\ (Done /\ result.isTracking) =>
           currentPose.rotation = [x |-> DegToRad(imuData.beta),
                                   y |-> DegToRad(imuData.gamma),
                                   z |-> DegToRad(imuData.alpha)]
    /\ imuListeners > 0 => ENABLED SensorEvent

\* C23 witness: a frame computed a pose after a sensor event delivered
\* non-zero angles.
C23_PoseAfterSensorEvent ==
    /\ Done
    /\ result.isTracking
    /\ imuData.alpha # 0
    /\ currentPose.rotation.z # 0

\* C24: after updateSettings with a mapping that names the acceptance
\* threshold, that value governs acceptance on later frames: a frame with
\* coherent motion reports tracking exactly when the confidence exceeds the
\* value the caller set.
C24_NamedThresholdGoverns ==
    (CoherentFrame /\ "acceptThreshold" \in DOMAIN settings) =>
        (result.isTracking <=> planeConfidence > settings.acceptThreshold)

\* C25: no tracking step pairs a previous grayscale frame captured at one
\* size with a current frame of another size: whenever a frame runs the
\* tracking step, the previous frame it reads has the current dimensions.
C25_NoMixedDimensions ==
    (Done /\ step.track) =>
        (step.prevW = step.w /\ step.prevH = step.h)

\* C26: drawDebug runs on every frame that goes through the pipeline,
\* whatever the frame's outcome, and leaves the tracking state as it read
\* it: after the call the feature list, the correspondences, the plane, the
\* confidence and the frame counter are the ones it painted, the counter is
\* the one of this frame, and the previous frame is the current image.
C26_OverlayLeavesStateAsDrawn ==
    Done =>
        /\ step.drawn.frame = frameCount
        /\ step.drawn.dots = Len(goodFeatures)
        /\ step.drawn.features = Len(goodFeatures)
        /\ step.drawn.vectors = Len(trackedPoints)
        /\ step.drawn.tracked = Len(trackedPoints)
        /\ step.drawn.confidence = planeConfidence
        /\ step.drawn.plane <=>
               (groundPlane # Null /\ planeConfidence > DrawThreshold)
        /\ step.drawn.status = "TRACKING" <=> result.isTracking
        /\ result.isTracking => currentPose = result.pose
        /\ prevGrayFrame = [rows |-> step.h, cols |-> step.w]

\* C26 witness: the overlay of a frame that did not report tracking shows
\* correspondences and the plane marker.
C26_OverlayOnSearchingFrame ==
    /\ Done
    /\ ~result.isTracking
    /\ step.drawn.status = "SEARCHING"
    /\ step.drawn.vectors > 0
    /\ step.drawn.plane

\* C27: every pose a frame produces has depth 3, lateral position equal to
\* the mean displacement of the frame's correspondences times 0.001 (x with
\* the opposite sign), rotation equal to the degrees-to-radians conversion
\* of the orientation angles as they are at that frame, and the center and
\* confidence of the plane hypothesis the frame accepted.
C27_PoseFromPlaneAndOrientation ==
    (Done /\ result.isTracking) =>
        LET n == Len(trackedPoints)
            dxs == [k \in 1..n |-> trackedPoints[k].curr.x - trackedPoints[k].prev.x]
            dys == [k \in 1..n |-> trackedPoints[k].curr.y - trackedPoints[k].prev.y]
        IN  /\ currentPose.position.z = PoseDepth
            /\ SameRatio(currentPose.position.x, 0 - Total(dxs, n), n * 1000)
            /\ SameRatio(currentPose.position.y, Total(dys, n), n * 1000)
            /\ currentPose.rotation.x = (imuData.beta * 3141593) \div 180
            /\ currentPose.rotation.y = (imuData.gamma * 3141593) \div 180
            /\ currentPose.rotation.z = (imuData.alpha * 3141593) \div 180
            /\ currentPose.planeCenter = groundPlane.center
            /\ currentPose.confidence = groundPlane.confidence
            /\ currentPose.confidence = planeConfidence
            /\ result.pose = currentPose

\* C27 witness: a pose computed from a non-zero displacement and non-zero
\* orientation angles.
C27_PoseWithMotionAndRotation ==
    /\ Done
    /\ result.isTracking
    /\ currentPose.position.x.num # 0
    /\ currentPose.rotation.x # 0
    /\ currentPose.rotation.y # 0

\* C28: counting the frames processed since the engine was initialized or
\* last reset (confidence 0, no previous frame), the confidence after k
\* frames is at most 0.15 * (k - 1), the first frame adding nothing, so no
\* call among the first 4 returns isTracking = true: a frame that reports
\* tracking is the fifth or a later one.
C28_NoTrackingInFirstFourFrames ==
    /\ planeConfidence <= ConfStepUp * Max(0, frameCount - 1)
    /\ (Done /\ result.isTracking) => frameCount >= 5

\* C28 witness: the fifth frame after init or reset reports tracking, the
\* four frames before it having been coherent.
C28_TrackingOnFifthFrame ==
    /\ Done
    /\ result.isTracking
    /\ frameCount = 5
    /\ planeConfidence = 4 * ConfStepUp

\* C29 as stated: after 4 or more consecutive frames that each had a
\* previous frame, at least minFeatures surviving correspondences and
\* coherent motion, the frame reports tracking.
C29_FourSuchFramesGiveTracking ==
    (Done /\ hist.coherent >= 4) => result.isTracking

\* C29: from any reachable state, on the fourth and on every later frame of
\* a run of consecutive frames that each had a previous frame, at least
\* minFeatures and at least 8 surviving correspondences and coherent motion,
\* the frame reports tracking (the run counted in hist.floored is the run
\* of such frames).
C29_FourCoherentFramesGiveTracking ==
    Done =>
        /\ hist.floored > 0 <=> CoherentFrame
        /\ hist.floored >= 4 => (result.isTracking /\ isTracking)

\* C29 witness: tracking reported on a frame after the fourth of a run of
\* coherent frames.
C29_TrackingAfterFourCoherent ==
    /\ Done
    /\ hist.floored >= 4
    /\ result.isTracking
    /\ planeConfidence > 4 * ConfStepUp

\* C30: after a frame that skipped tracking for lack of points or ended
\* with fewer than minFeatures tracked points, the next processed frame
\* invokes detection; and a flow failure that detection has not followed
\* yet is fewer than featureRefreshInterval frames old, so detection runs
\* again within that many frames of the failure.
C30_DetectionFollowsLoss ==
    [][/\ (/\ Done
           /\ Rows(prevPoints) < settings.minFeatures
           /\ step'.op = "processFrame"
           /\ step'.ret = "done") => step'.detect
       /\ hist'.failedAt > 0 =>
              frameCount' - hist'.failedAt < settings'.featureRefreshInterval]_vars

\* C30 witness: the periodic refresh runs detection on a frame that still
\* had enough points, after a flow failure on an earlier frame.
C30_RefreshAfterFlowFailure ==
    /\ Done
    /\ step.detect
    /\ step.refreshed
    /\ step.startRows >= settings.minFeatures
    /\ frameCount % settings.featureRefreshInterval = 0

\* C31: whenever processFrame returns isTracking = true, the same result
\* has hasFeatures = true and featureCount >= minFeatures, the frame's
\* motion was coherent, and the confidence at return is above 0.5 and is
\* the confidence recorded in the returned pose.
C31_TrackingImpliesCoherentAndConfident ==
    (Done /\ result.isTracking) =>
        /\ result.hasFeatures
        /\ result.featureCount >= settings.minFeatures
        /\ result.featureCount = Len(trackedPoints)
        /\ CoherentFrame
        /\ planeConfidence > AcceptThreshold
        /\ result.pose # Null
        /\ result.pose.confidence = planeConfidence

\* C31 witness: a tracking result on a frame that followed an incoherent
\* one, the confidence having stayed above the threshold.
C31_TrackingAgainAfterIncoherent ==
    /\ Done
    /\ result.isTracking
    /\ result.hasFeatures
    /\ step.confBefore > AcceptThreshold
    /\ step.confBefore < planeConfidence
    /\ planeConfidence < ConfOne
    /\ planeConfidence % ConfStepUp # 0

\* C32 as stated: after every processFrame call, early returns included,
\* the engine's isTracking field equals the isTracking flag of the result
\* the call returned.
C32_FlagEqualsResultAlways ==
    step.op = "processFrame" => isTracking = result.isTracking

\* C32: after every processFrame call that gets past the dimension check
\* (calls whose processing throws included), and after a call that returns
\* early because the engine is not initialized, the isTracking field equals
\* the flag of the returned result; a call that returns early because the
\* frame has zero width or height leaves the field as it was.
C32_FlagEqualsResultUnlessInvalid ==
    [][step'.op = "processFrame" =>
          IF step'.ret = "invalid"
          THEN isTracking' = isTracking
          ELSE isTracking' = result'.isTracking]_vars

\* C32 witness: a frame with a zero dimension returned the no-tracking
\* result to an engine whose field still says tracking.
C32_InvalidFrameKeepsFlag ==
    /\ step.op = "processFrame"
    /\ step.ret = "invalid"
    /\ isTracking
    /\ ~result.isTracking
    /\ currentPose # Null
    /\ planeConfidence > AcceptThreshold

\* What a caller reads through the imu field of the result it holds:
\* the result stores the reference this.imuData, the engine never replaces
\* that object, and the orientation listener writes into it.
ResultImu == imuData

\* C33: a sensor event that arrives after processFrame has returned does
\* not change the imu values of the returned result, and the result's imu
\* stays the sample the rotation of its pose was converted from.
C33_ResultImuIsSnapshot ==
    [][(step.op = "processFrame" /\ step'.op = "sensor") =>
          /\ ResultImu' = ResultImu
          /\ result'.isTracking =>
                 result'.pose.rotation = [x |-> DegToRad(ResultImu'.beta),
                                          y |-> DegToRad(ResultImu'.gamma),
                                          z |-> DegToRad(ResultImu'.alpha)]]_vars

\* C34: over every sequence of init, processFrame, reset and dispose calls
\* no released buffer is used again: no processFrame call touches a
\* released Mat, and no reset or dispose call reads or releases one (which
\* the binding answers by throwing).
C34_NoUseAfterRelease ==
    /\ step.op = "processFrame" => ~step.usedReleased
    /\ step.op \in {"reset", "dispose"} => step.ret # "thrown"

====
